---- MODULE Spec2Model ----
(***************************************************************************)
(* Vietoris-Rips complexes over GF(2) (src/complexes.py), the metrics of   *)
(* src/metrics.py, and the part of the GUI (src/gui.py) that owns the      *)
(* vertex lists a complex is built from.                                   *)
(*                                                                         *)
(* A point name is a Python str: a sequence of one-character strings.      *)
(* A face (simplex) is a sequence of names.  Real numbers (coordinates,    *)
(* the radius) are counted in halves: the integer 2 stands for 1.0, the    *)
(* integer 1 for 0.5.                                                      *)
(***************************************************************************)
EXTENDS Integers, Sequences, FiniteSets, TLC

\* ------------------------------------------------------------------ bounds
\* The largest number of points of an input.
MaxPoints == 4
\* The largest radius of an input, in halves.
MaxRadius == 1

\* ------------------------------------------------------ Python strings, lists
\* Code-point order of the characters used in names.
Alphabet == <<":", "A", "B", "C", "D", "E", "F">>

Ord(c) == CHOOSE i \in 1..Len(Alphabet) : Alphabet[i] = c

\* str < str: lexicographic by code point, a proper prefix is smaller.
RECURSIVE StrLt(_, _)
StrLt(s, t) ==
    IF t = <<>> THEN FALSE
    ELSE IF s = <<>> THEN TRUE
    ELSE IF s[1] = t[1] THEN StrLt(Tail(s), Tail(t))
    ELSE Ord(s[1]) < Ord(t[1])

\* list < list / tuple < tuple of str: lexicographic by StrLt.
RECURSIVE FaceLt(_, _)
FaceLt(f, g) ==
    IF g = <<>> THEN FALSE
    ELSE IF f = <<>> THEN TRUE
    ELSE IF f[1] = g[1] THEN FaceLt(Tail(f), Tail(g))
    ELSE StrLt(f[1], g[1])

\* list(name): a str becomes the list of its one-character strings.
ListOfStr(name) == [i \in 1..Len(name) |-> <<name[i]>>]

\* sorted(clique): the names of a set in ascending str order.
RECURSIVE SortedNames(_)
SortedNames(S) ==
    IF S = {} THEN <<>>
    ELSE LET m == CHOOSE x \in S : \A y \in S : x = y \/ StrLt(x, y)
         IN  <<m>> \o SortedNames(S \ {m})

\* The elements of s at the positions I, in increasing position.
RECURSIVE Pick(_, _)
Pick(s, I) ==
    IF I = {} THEN <<>>
    ELSE LET m == CHOOSE i \in I : \A j \in I : i <= j
         IN  <<s[m]>> \o Pick(s, I \ {m})

\* itertools.combinations(simplex, k), as the set of the tuples it yields.
Combinations(simplex, k) ==
    {Pick(simplex, I) : I \in {J \in SUBSET (1..Len(simplex)) : Cardinality(J) = k}}

RemoveAt(s, i) == SubSeq(s, 1, i - 1) \o SubSeq(s, i + 1, Len(s))

\* The sort keys of the two sorted(..., key=...) calls.
\* "size_first": key (len(simplex), simplex[0]); "first": key face[0].
KeyLt(mode, a, b) ==
    IF mode = "size_first"
    THEN Len(a) < Len(b) \/ (Len(a) = Len(b) /\ StrLt(a[1], b[1]))
    ELSE StrLt(a[1], b[1])

\* sorted(seq, key=...): Python's sort is stable, elements of equal key keep
\* the order they have in seq.
RECURSIVE StableSort(_, _)
StableSort(mode, s) ==
    IF s = <<>> THEN <<>>
    ELSE LET i == CHOOSE i \in 1..Len(s) :
                      /\ \A j \in 1..Len(s) : ~KeyLt(mode, s[j], s[i])
                      /\ \A j \in 1..(i - 1) : KeyLt(mode, s[i], s[j])
         IN  <<s[i]>> \o StableSort(mode, RemoveAt(s, i))

\* The elements of a set of faces in ascending tuple order.
RECURSIVE Ascending(_)
Ascending(S) ==
    IF S = {} THEN <<>>
    ELSE LET m == CHOOSE x \in S : \A y \in S : x = y \/ FaceLt(x, y)
         IN  <<m>> \o Ascending(S \ {m})

\* Every arrangement of the elements of S.
RECURSIVE AllOrders(_)
AllOrders(S) ==
    IF S = {} THEN {<<>>}
    ELSE UNION {{<<x>> \o t : t \in AllOrders(S \ {x})} : x \in S}

\* The arrangements of S that are in key order already: S sorted by the key,
\* the elements of equal key in every order.  sorted(..., key=...) maps each
\* arrangement of S to one of these and leaves these as they are.
RECURSIVE Orders(_, _)
Orders(mode, S) ==
    IF S = {} THEN {<<>>}
    ELSE UNION {{<<m>> \o t : t \in Orders(mode, S \ {m})} :
                   m \in {x \in S : \A y \in S : ~KeyLt(mode, y, x)}}

\* The order in which a Python set of tuples of str (and networkx's clique
\* search, which iterates sets of str) hands out its elements follows the
\* str hashes, which an interpreter draws when it starts: every arrangement
\* of the set can come out, and the arrangement of one set says nothing
\* about that of another.  "any": all arrangements; with a sort key: one
\* arrangement for each list the sort by that key can make of the set.
Arrangements(mode, S) == IF mode = "any" THEN AllOrders(S) ELSE Orders(mode, S)

\* No set has been iterated.
NoSeed == <<>>

\* The hash seeds of an interpreter as far as the sets of `sets` show them:
\* one arrangement for each of the sets.
RECURSIVE HashSeeds(_, _)
HashSeeds(mode, sets) ==
    IF sets = {} THEN {NoSeed}
    ELSE LET S == CHOOSE S \in sets : TRUE
         IN  {(S :> o) @@ sd : o \in Arrangements(mode, S),
                               sd \in HashSeeds(mode, sets \ {S})}

\* Iterating the set S under the hash seed.
SetOrder(seed, S) == seed[S]

\* ----------------------------------------------------------------- metrics
Abs(x) == IF x < 0 THEN -x ELSE x

RECURSIVE SumSq(_, _)
SumSq(v1, v2) ==
    IF v1 = <<>> THEN 0
    ELSE (v1[1] - v2[1]) * (v1[1] - v2[1]) + SumSq(Tail(v1), Tail(v2))

RECURSIVE manhattan_metric(_, _)
manhattan_metric(v1, v2) ==
    IF v1 = <<>> THEN 0
    ELSE Abs(v1[1] - v2[1]) + manhattan_metric(Tail(v1), Tail(v2))

RECURSIVE maximum_metric(_, _)
maximum_metric(v1, v2) ==
    IF v1 = <<>> THEN 0
    ELSE LET d == Abs(v1[1] - v2[1])
             r == maximum_metric(Tail(v1), Tail(v2))
         IN  IF d > r THEN d ELSE r

Metrics == {"Euclidean", "Manhattan", "Maximum"}

\* metric(v1, v2) <= 2 * radius, for a radius >= 0.  The Euclidean norm is a
\* square root: sqrt(q) <= d iff q <= d * d.
Within(metric, v1, v2, r) ==
    CASE metric = "Euclidean" -> SumSq(v1, v2) <= (2 * r) * (2 * r)
      [] metric = "Manhattan" -> manhattan_metric(v1, v2) <= 2 * r
      [] metric = "Maximum"   -> maximum_metric(v1, v2) <= 2 * r

\* metric(v1, v2) = 2 * radius
Exactly(metric, v1, v2, r) ==
    CASE metric = "Euclidean" -> SumSq(v1, v2) = (2 * r) * (2 * r)
      [] metric = "Manhattan" -> manhattan_metric(v1, v2) = 2 * r
      [] metric = "Maximum"   -> maximum_metric(v1, v2) = 2 * r

\* ------------------------------------------------------- VietorisRipsComplex
Range(s) == {s[i] : i \in 1..Len(s)}

\* dict(zip(vertex_names, vertices)): the coordinates of each name (a later
\* pair of the same name replaces an earlier one).
Zip(names, vertices) ==
    [n \in Range(names) |->
        vertices[CHOOSE i \in 1..Len(names) :
                    names[i] = n /\ \A j \in (i + 1)..Len(names) : names[j] # n]]

\* construct_graph with the comparison of its docstring ("smaller than the
\* diameter"): a pair at distance exactly 2 * radius gets no edge.
construct_graph_strict(names, vertices, radius, metric) ==
    [nodes |-> Range(names),
     edges |-> {{names[q[1]], names[q[2]]} : q \in
                  {q \in (1..Len(names)) \X (1..Len(names)) :
                      /\ q[1] < q[2]
                      /\ Within(metric, vertices[names[q[1]]],
                                vertices[names[q[2]]], radius)
                      /\ ~Exactly(metric, vertices[names[q[1]]],
                                  vertices[names[q[2]]], radius)}}]

\* nx.Graph: the node set and the set of undirected edges {i, j}.
\* One edge per position pair i < j of vertex_names whose distance is at most
\* 2 * radius.
construct_graph(names, vertices, radius, metric) ==
    [nodes |-> Range(names),
     edges |-> {{names[q[1]], names[q[2]]} : q \in
                  {q \in (1..Len(names)) \X (1..Len(names)) :
                      /\ q[1] < q[2]
                      /\ Within(metric, vertices[names[q[1]]],
                                vertices[names[q[2]]], radius)}}]

IsClique(graph, S) ==
    \A u \in S : \A v \in S : u # v => {u, v} \in graph.edges

\* A clique search that yields every clique, maximal or not
\* (nx.enumerate_all_cliques).
find_cliques_all(graph) ==
    {S \in SUBSET graph.nodes : S # {} /\ IsClique(graph, S)}

\* nx.find_cliques: every maximal clique of the graph, each once.
find_cliques(graph) ==
    {S \in SUBSET graph.nodes :
        /\ S # {}
        /\ IsClique(graph, S)
        /\ \A v \in graph.nodes \ S : ~IsClique(graph, S \cup {v})}

\* [list(sorted(clique)) for clique in cliques], as a set.
Cliques(graph) == {SortedNames(clique) : clique \in find_cliques(graph)}

\* get_simplices without the final sort: the cliques in the order the clique
\* search yields them.
get_simplices_unsorted(graph, seed) == SetOrder(seed, Cliques(graph))

\* get_simplices: each clique sorted, the list sorted by (size, first name);
\* cliques of equal key stay in the order the clique search yields them.
get_simplices(graph, seed) ==
    StableSort("size_first", SetOrder(seed, Cliques(graph)))

RECURSIVE MaxLen(_)
MaxLen(simplices) ==
    IF simplices = <<>> THEN 0
    ELSE LET r == MaxLen(Tail(simplices))
         IN  IF Len(simplices[1]) > r THEN Len(simplices[1]) ELSE r

\* __init__ raises when vertex_names is None or empty: `vertex_names or ...`
\* then reads self.vertices, which is not assigned yet (AttributeError).
InitRaises(names_none, names) == names_none \/ names = <<>>

\* The hash seeds as far as the clique search of __init__ shows them.
CliqueSeeds(names, vertices, radius, metric) ==
    HashSeeds("any", {Cliques(construct_graph(names, Zip(names, vertices), radius, metric))})

\* The attributes __init__ assigns, but for vertex_names: that attribute is
\* the very list object the caller passed, not a copy of it.
NewComplex(names, vertices, radius, metric, seed) ==
    LET vs     == Zip(names, vertices)
        graph  == construct_graph(names, vs, radius, metric)
        simpl  == get_simplices(graph, seed)
    IN  [vertices  |-> vs,
         radius    |-> radius,
         metric    |-> metric,
         graph     |-> graph,
         simplices |-> simpl,
         dim       |-> MaxLen(simpl) - 1]

\* The sentinel [[]]: a list holding one empty face.
Sentinel == << <<>> >>

\* The concatenation of the lists of a list.
RECURSIVE Flatten(_)
Flatten(ss) == IF ss = <<>> THEN <<>> ELSE ss[1] \o Flatten(Tail(ss))

\* get_p_simplices without the set: a face of several maximal simplices is
\* returned once for each of them.
get_p_simplices_nodedup(c, dim) ==
    IF dim = 0 THEN [i \in 1..Len(c.vertex_names) |-> ListOfStr(c.vertex_names[i])]
    ELSE IF dim < 0 \/ dim > c.dim THEN Sentinel
    ELSE StableSort("first",
            Flatten([i \in 1..Len(c.simplices) |->
                        IF Len(c.simplices[i]) >= dim + 1
                        THEN Ascending(Combinations(c.simplices[i], dim + 1))
                        ELSE <<>>]))

\* get_p_simplices with the upper range check one too early: the faces of
\* the top dimension are answered with the sentinel.
\* unique_faces of get_p_simplices(dim), 0 < dim <= self.dim: the tuples of
\* dim + 1 names of the maximal simplices that are large enough, as a set.
unique_faces(c, dim) ==
    LET higher == {i \in 1..Len(c.simplices) : Len(c.simplices[i]) >= dim + 1}
    IN  UNION {Combinations(c.simplices[i], dim + 1) : i \in higher}

get_p_simplices_upto(c, dim) ==
    IF dim = 0 THEN [i \in 1..Len(c.vertex_names) |-> ListOfStr(c.vertex_names[i])]
    ELSE IF dim < 0 \/ dim >= c.dim THEN Sentinel
    ELSE StableSort("first", SetOrder(c.seed, unique_faces(c, dim)))

\* get_p_simplices(dim) of the instance c: its attributes, c.vertex_names
\* being the list as it reads at the call and c.seed the hash seed of the
\* interpreter the instance lives in.
get_p_simplices(c, dim) ==
    IF dim = 0 THEN [i \in 1..Len(c.vertex_names) |-> ListOfStr(c.vertex_names[i])]
    ELSE IF dim < 0 \/ dim > c.dim THEN Sentinel
    ELSE StableSort("first", SetOrder(c.seed, unique_faces(c, dim)))

\* The sets that get_p_simplices(dim) iterates for the dimensions of dims.
FaceSets(c, dims) == {unique_faces(c, p) : p \in {q \in dims : 0 < q /\ q <= c.dim}}

\* set(simplices) of get_all_simplices: the names as tuples of characters
\* and every face of size >= 2 of every maximal simplex.
all_simplices(c) ==
    {ListOfStr(c.vertex_names[i]) : i \in 1..Len(c.vertex_names)}
    \cup UNION {UNION {Combinations(c.simplices[i], d + 1) :
                          d \in 1..(Len(c.simplices[i]) - 1)} :
                   i \in 1..Len(c.simplices)}

\* get_all_simplices: the set in iteration order, sorted by (size, first
\* name); simplices of equal key stay in iteration order.
get_all_simplices(c) ==
    StableSort("size_first", SetOrder(c.seed, all_simplices(c)))

\* ------------------------------------------------------------ GF(2) matrices
\* A matrix is its shape and its rows: [rows, cols, a], a[i][j] \in {0, 1}.
Matrix(r, c, a) == [rows |-> r, cols |-> c, a |-> a]

\* field(np.zeros(n)).reshape([r, c])
Zeros(r, c) == Matrix(r, c, [i \in 1..r |-> [j \in 1..c |-> 0]])

\* np.transpose
Transpose(m) ==
    Matrix(m.cols, m.rows, [j \in 1..m.cols |-> [i \in 1..m.rows |-> m.a[i][j]]])

\* set(face).issubset(set(simplex))
IsSubset(face, simplex) == Range(face) \subseteq Range(simplex)

\* get_p_boundary_matrix without the reshape of the zero vector of the faces:
\* a row where the code makes a column.
get_p_boundary_matrix_flat(c, dim) ==
    LET p_simplices == get_p_simplices(c, dim)
        faces       == get_p_simplices(c, dim - 1)
    IN  IF p_simplices = Sentinel /\ faces = Sentinel THEN Zeros(1, 1)
        ELSE IF p_simplices = Sentinel THEN Zeros(1, Len(faces))
        ELSE IF faces = Sentinel THEN Zeros(1, Len(p_simplices))
        ELSE Transpose(Matrix(Len(p_simplices), Len(faces),
                 [i \in 1..Len(p_simplices) |->
                     [j \in 1..Len(faces) |->
                         IF IsSubset(faces[j], p_simplices[i]) THEN 1 ELSE 0]]))

get_p_boundary_matrix(c, dim) ==
    LET p_simplices == get_p_simplices(c, dim)
        faces       == get_p_simplices(c, dim - 1)
    IN  IF p_simplices = Sentinel /\ faces = Sentinel THEN Zeros(1, 1)
        ELSE IF p_simplices = Sentinel THEN Zeros(Len(faces), 1)
        ELSE IF faces = Sentinel THEN Zeros(1, Len(p_simplices))
        ELSE Transpose(Matrix(Len(p_simplices), Len(faces),
                 [i \in 1..Len(p_simplices) |->
                     [j \in 1..Len(faces) |->
                         IF IsSubset(faces[j], p_simplices[i]) THEN 1 ELSE 0]]))

\* Row addition over GF(2).
XorRow(r1, r2) == [j \in 1..Len(r1) |-> (r1[j] + r2[j]) % 2]

\* np.linalg.matrix_rank of a GF(2) array: the number of pivots of Gaussian
\* elimination with arithmetic mod 2, column k onwards, on a list of rows.
RECURSIVE RankFrom(_, _, _)
RankFrom(rows, k, cols) ==
    IF rows = <<>> \/ k > cols THEN 0
    ELSE LET piv == {i \in 1..Len(rows) : rows[i][k] = 1}
         IN  IF piv = {} THEN RankFrom(rows, k + 1, cols)
             ELSE LET p    == CHOOSE i \in piv : \A j \in piv : i <= j
                      rest == [i \in 1..(Len(rows) - 1) |->
                                  LET r == IF i < p THEN rows[i] ELSE rows[i + 1]
                                  IN  IF r[k] = 1 THEN XorRow(r, rows[p]) ELSE r]
                  IN  1 + RankFrom(rest, k + 1, cols)

matrix_rank(m) == RankFrom(m.a, 1, m.cols)

\* np.array_equal: the same shape and the same entries.
array_equal(m1, m2) == m1 = m2

\* The formula with the number of rows for the number of columns.
RankNullity_rows(p_boundary_matrix, p1_boundary_matrix) ==
    p_boundary_matrix.rows - matrix_rank(p_boundary_matrix)
        - matrix_rank(p1_boundary_matrix)

\* col_num - p_rank - p1_rank, the general formula of get_p_betti.
RankNullity(p_boundary_matrix, p1_boundary_matrix) ==
    p_boundary_matrix.cols - matrix_rank(p_boundary_matrix)
        - matrix_rank(p1_boundary_matrix)

get_p_betti(c, dim) ==
    LET p_boundary_matrix  == get_p_boundary_matrix(c, dim)
        p1_boundary_matrix == get_p_boundary_matrix(c, dim + 1)
        zero               == Zeros(1, 1)
    IN  IF array_equal(p_boundary_matrix, zero) /\ array_equal(p1_boundary_matrix, zero)
        THEN 0
        ELSE RankNullity(p_boundary_matrix, p1_boundary_matrix)

\* get_betti over range(self.dim): the top Betti number is left out.
get_betti_short(c) == [i \in 1..c.dim |-> get_p_betti(c, i - 1)]

get_betti(c) == [i \in 1..(c.dim + 1) |-> get_p_betti(c, i - 1)]

\* Matrix product over GF(2) (defined when m1.cols = m2.rows).
DotMod2(r, m2, j) ==
    LET F[k \in 0..Len(r)] ==
            IF k = 0 THEN 0 ELSE (F[k - 1] + r[k] * m2.a[k][j]) % 2
    IN  F[Len(r)]

MatMul(m1, m2) ==
    Matrix(m1.rows, m2.cols,
           [i \in 1..m1.rows |-> [j \in 1..m2.cols |-> DotMod2(m1.a[i], m2, j)]])

\* ------------------------------------------------------- texts of the GUI
\* An entry's text is a str: a sequence of one-character strings.
DigitChars == <<"0", "1", "2", "3", "4", "5", "6", "7", "8", "9">>

\* str.isdecimal()
isdecimal(text) ==
    text # <<>> /\ \A i \in 1..Len(text) : text[i] \in Range(DigitChars)

DigitVal(ch) == (CHOOSE i \in 1..Len(DigitChars) : DigitChars[i] = ch) - 1

\* int(text) of a decimal text
RECURSIVE IntOf(_)
IntOf(text) ==
    IF text = <<>> THEN 0
    ELSE 10 * IntOf(SubSeq(text, 1, Len(text) - 1)) + DigitVal(text[Len(text)])

\* str.replace(ch, with)
Replace(text, ch, with) ==
    Flatten([i \in 1..Len(text) |-> IF text[i] = ch THEN with ELSE <<text[i]>>])

\* str.split(sep) with a separator of one character
RECURSIVE Split(_, _)
Split(text, sep) ==
    IF \A i \in 1..Len(text) : text[i] # sep THEN <<text>>
    ELSE LET i == CHOOSE i \in 1..Len(text) :
                      text[i] = sep /\ \A j \in 1..(i - 1) : text[j] # sep
         IN  <<SubSeq(text, 1, i - 1)>> \o Split(SubSeq(text, i + 1, Len(text)), sep)

\* sep.join(tokens)
RECURSIVE Join(_, _)
Join(tokens, sep) ==
    IF tokens = <<>> THEN <<>>
    ELSE IF Len(tokens) = 1 THEN tokens[1]
    ELSE tokens[1] \o sep \o Join(Tail(tokens), sep)

Count(text, ch) == Cardinality({i \in 1..Len(text) : text[i] = ch})

RECURSIVE Pow10(_)
Pow10(n) == IF n = 0 THEN 1 ELSE 10 * Pow10(n - 1)

\* float(text) raises ValueError: of the texts the validators let through
\* (digits and dots, a digit among them), those with more than one dot or
\* with anything that is no digit and no dot.
FloatRaises(text) ==
    \/ Count(text, ".") > 1
    \/ ~isdecimal(Replace(text, ".", <<>>))

\* float(text), in halves (exact for the texts whose value is a multiple of
\* 0.5).
FloatOf(text) ==
    LET parts  == Split(text, ".")
        digits == Replace(text, ".", <<>>)
        frac   == IF Len(parts) = 2 THEN Len(parts[2]) ELSE 0
    IN  (2 * IntOf(digits)) \div Pow10(frac)

\* Dimension_Frame.validate_dimension
validate_dimension(dim) == isdecimal(dim) /\ IntOf(dim) # 0

\* Vertex_Addition_Frame.validate_name
validate_name(name, names) == ~(name = <<>> \/ name \in Range(names))

\* Vertex_Addition_Frame.validate_coords
validate_coords(coords_text, dim, stored) ==
    LET coords == Split(Replace(coords_text, ",", <<>>), " ")
    IN  /\ isdecimal(dim)
        /\ Len(coords) = IntOf(dim)
        /\ \A i \in 1..Len(coords) : isdecimal(Replace(coords[i], ".", <<>>))
        /\ coords \notin Range(stored)

\* Vertex_Addition_Frame.get_coords / get_str_coords
get_coords(entry) == Split(Replace(entry, ",", <<".">>), " ")

get_str_coords(entry) == Replace(entry, ",", <<".">>)

\* f'{vertex_name}: {coords_text}'
Label(name, coords_text) == name \o <<":", " ">> \o coords_text

\* Metric_Frame.validate_radius
validate_radius(text) ==
    isdecimal(Replace(Replace(text, ",", <<>>), ".", <<>>))

\* check_input without the comparison of each stored vertex with the
\* dimension entry.
check_input_nolen(dim, stored, radius_text) ==
    /\ validate_dimension(dim)
    /\ Len(stored) > 0
    /\ validate_radius(radius_text)

\* Plot_Generation_Frame.check_input (None counts as False)
check_input(dim, stored, radius_text) ==
    /\ validate_dimension(dim)
    /\ Len(stored) > 0
    /\ validate_radius(radius_text)
    /\ \A i \in 1..Len(stored) : Len(stored[i]) = IntOf(dim)

\* Main_Window.convert_coords_to_float
convert_coords_to_float(stored) ==
    [i \in 1..Len(stored) |-> [k \in 1..Len(stored[i]) |-> FloatOf(stored[i][k])]]

ConvertRaises(stored) ==
    \E i \in 1..Len(stored) : \E k \in 1..Len(stored[i]) : FloatRaises(stored[i][k])

\* ------------------------------------------------------------------- state
VARIABLES
    vertex_names,   \* the list object passed as vertex_names (the caller keeps it)
    names_none,     \* TRUE when the argument vertex_names is None
    vertices,       \* the argument vertices: a list of coordinate vectors
    radius,         \* the argument radius
    metric,         \* the argument metric
    seed,           \* the hash seed, as far as the call in `result` has shown it
    pc,             \* "new", "built" (an instance exists) or "raised"
    complex,        \* the attributes of the instance, but for vertex_names
    result,         \* the last call with the instance and what it returned or was passed
    vertex_coords,    \* Main_Window.vertex_coords: a list of lists of str
    entry_dimension,  \* the text of Dimension_Frame.entry_dimension
    entry_radius,     \* the text of Metric_Frame.entry_radius
    vertex_to_delete, \* Vertex_List_Frame.vertex_to_delete
    menu_vertex,      \* the labels of the radiobuttons of menu_vertex
    betti             \* Main_Window.betti, the list the Betti label shows

coreVars == <<vertex_names, names_none, vertices, radius, metric, seed, pc, complex, result>>

guiVars == <<vertex_coords, entry_dimension, entry_radius, vertex_to_delete, menu_vertex, betti>>

vars == <<coreVars, guiVars>>

\* The corners of the spec's unit square: (0, 0), (1, 0), (0, 1), (1, 1).
Positions == {<<0, 0>>, <<2, 0>>, <<0, 2>>, <<2, 2>>}

\* The three metrics depend on the differences of the coordinates only, and
\* the square maps onto itself by reflections that take any corner to any
\* other: the first point of an input is put at this corner.
Origin == <<0, 0>>

\* The name lists of the inputs: the sub-lists of these lists.
NamePools == {<< <<"B">>, <<"A">>, <<"D">>, <<"C">> >>,
              << <<"B">>, <<"A", "B">>, <<"A">>, <<"C">> >>}

NameLists ==
    UNION {{Pick(pool, I) : I \in {J \in SUBSET (1..Len(pool)) : Cardinality(J) <= MaxPoints}} :
              pool \in NamePools}

NoComplex == [dim |-> -1]
NoResult == [op |-> "none"]

\* An instance as a call on it reads it, in an interpreter of hash seed sd:
\* the attributes c that __init__ assigned and self.vertex_names, which is
\* the list object `names` of the caller.
InstanceOf(c, names, sd) ==
    [vertex_names |-> names,
     seed         |-> sd,
     vertices     |-> c.vertices,
     radius       |-> c.radius,
     metric       |-> c.metric,
     graph        |-> c.graph,
     simplices    |-> c.simplices,
     dim          |-> c.dim]

Instance(sd) == InstanceOf(complex, vertex_names, sd)

\* The instance under the hash seed of the call in `result`.
Self == Instance(seed)

\* How far outside [0, dim] the dimensions of the calls go.
DimMargin == 1

Dims == (0 - DimMargin)..(complex.dim + DimMargin)

Init ==
    /\ names_none \in BOOLEAN
    /\ vertex_names \in (IF names_none THEN {<<>>} ELSE NameLists)
    /\ vertices \in UNION {{v \in [1..n -> Positions] : n > 0 => v[1] = Origin} :
                             n \in (IF names_none THEN 0..MaxPoints
                                    ELSE {Len(vertex_names)})}
    /\ radius \in 0..MaxRadius
    /\ metric \in Metrics
    /\ seed = NoSeed
    /\ pc = "new"
    /\ complex = NoComplex
    /\ result = NoResult
    /\ vertex_coords = <<>>
    /\ entry_dimension = <<>>
    /\ entry_radius = <<>>
    /\ vertex_to_delete = <<>>
    /\ menu_vertex = <<>>
    /\ betti = <<>>

\* VietorisRipsComplex(vertices, radius, vertex_names, metric)
Construct ==
    /\ pc = "new"
    /\ IF InitRaises(names_none, vertex_names)
       THEN /\ pc' = "raised"
            /\ complex' = complex
       ELSE /\ pc' = "built"
            /\ \E sd \in CliqueSeeds(vertex_names, vertices, radius, metric) :
                  complex' = NewComplex(vertex_names, vertices, radius, metric, sd)
    /\ UNCHANGED <<vertex_names, names_none, vertices, radius, metric, seed, result>>
    /\ UNCHANGED guiVars

\* An instance exists and no call on it is under way.
Callable == pc = "built" /\ result = NoResult

\* A call whose iterations of sets come out as under the hash seed sd.
Call(op, p, sd, value) ==
    /\ result' = [op |-> op, p |-> p, value |-> value]
    /\ seed' = sd
    /\ UNCHANGED <<vertex_names, names_none, vertices, radius, metric, pc, complex>>
    /\ UNCHANGED guiVars

\* The hash seeds as far as the calls of get_p_simplices for the dimensions
\* of dims show them.
FaceSeeds(dims) == HashSeeds("first", FaceSets(Instance(NoSeed), dims))

GetPSimplices ==
    /\ Callable
    /\ \E p \in Dims : \E sd \in FaceSeeds({p}) :
          Call("get_p_simplices", p, sd, get_p_simplices(Instance(sd), p))

GetAllSimplices ==
    /\ Callable
    /\ \E sd \in HashSeeds("size_first", {all_simplices(Instance(NoSeed))}) :
          Call("get_all_simplices", 0, sd, get_all_simplices(Instance(sd)))

GetPBoundaryMatrix ==
    /\ Callable
    /\ \E p \in Dims : \E sd \in FaceSeeds({p - 1, p}) :
          Call("get_p_boundary_matrix", p, sd, get_p_boundary_matrix(Instance(sd), p))

GetPBetti ==
    /\ Callable
    /\ \E p \in Dims : \E sd \in FaceSeeds({p - 1, p, p + 1}) :
          Call("get_p_betti", p, sd, get_p_betti(Instance(sd), p))

GetBetti ==
    /\ Callable
    /\ \E sd \in FaceSeeds(0..(complex.dim + 1)) :
          Call("get_betti", 0, sd, get_betti(Instance(sd)))

\* The call returns: the caller has its value and may call again.  The
\* arrangements the call saw are not kept: a later call draws those of its
\* sets anew, so two calls need not agree on the arrangement of one set.
Return ==
    /\ pc = "built"
    /\ result # NoResult
    /\ result' = NoResult
    /\ seed' = NoSeed
    /\ UNCHANGED <<vertex_names, names_none, vertices, radius, metric, pc, complex>>
    /\ UNCHANGED guiVars

Next ==
    \/ Construct
    \/ GetPSimplices
    \/ GetAllSimplices
    \/ GetPBoundaryMatrix
    \/ GetPBetti
    \/ GetBetti
    \/ Return

Spec == Init /\ [][Next]_vars

\* ---------------------------------------------------------------- the GUI
\* The largest number of vertices the user adds.
MaxVertices == 2

\* What the user types into the entries.
NameEntries == {<<>>, <<"A">>, <<"A", ":">>}

CoordEntries == {<<"0", " ", "0">>, <<"0", ",", "5", " ", "0">>, <<"1", " ", "0", " ", "0">>}

DimensionEntries == {<<>>, <<"2">>, <<"3">>}

RadiusEntries == {<<>>, <<"0", ".", "5">>, <<"1", ".", "2", ".", "3">>}

\* Main_Window.__init__: empty lists, no complex, the Euclidean metric.
InitGui ==
    /\ vertex_names = <<>>
    /\ names_none = FALSE
    /\ vertices = <<>>
    /\ radius = 0
    /\ metric = "Euclidean"
    /\ seed = NoSeed
    /\ pc = "new"
    /\ complex = NoComplex
    /\ result = NoResult
    /\ vertex_coords = <<>>
    /\ entry_dimension = <<>>
    /\ entry_radius = <<>>
    /\ vertex_to_delete = <<>>
    /\ menu_vertex = <<>>
    /\ betti = <<>>

\* The callbacks run one at a time, on Tk's event loop: none starts while a
\* call of a plotting function is under way.
Idle == result = NoResult

\* The user types a dimension.
EditDimension ==
    /\ Idle
    /\ \E text \in DimensionEntries : entry_dimension' = text
    /\ UNCHANGED <<coreVars, vertex_coords, entry_radius, vertex_to_delete, menu_vertex, betti>>

\* The user types a radius.
EditRadius ==
    /\ Idle
    /\ \E text \in RadiusEntries : entry_radius' = text
    /\ UNCHANGED <<coreVars, vertex_coords, entry_dimension, vertex_to_delete, menu_vertex, betti>>

\* Vertex_Addition_Frame.vertex_confirmation, with the texts of entry_name
\* and entry_coords: the vertex is appended to the two lists and gets a menu
\* entry.
vertex_confirmation ==
    \E entry_name \in NameEntries : \E entry_coords \in CoordEntries :
        /\ Idle
        /\ Len(vertex_names) < MaxVertices
        /\ validate_name(entry_name, vertex_names)
        /\ validate_dimension(entry_dimension)
        /\ validate_coords(get_str_coords(entry_coords), entry_dimension, vertex_coords)
        /\ vertex_names' = Append(vertex_names, entry_name)
        /\ vertex_coords' = Append(vertex_coords, get_coords(entry_coords))
        /\ menu_vertex' = Append(menu_vertex, Label(entry_name, get_str_coords(entry_coords)))
        /\ UNCHANGED <<names_none, vertices, radius, metric, seed, pc, complex, result,
                       entry_dimension, entry_radius, vertex_to_delete, betti>>

\* Vertex_List_Frame.waitlist: the user picks a menu entry.
waitlist ==
    /\ Idle
    /\ \E i \in 1..Len(menu_vertex) : vertex_to_delete' = menu_vertex[i]
    /\ UNCHANGED <<coreVars, vertex_coords, entry_dimension, entry_radius, menu_vertex, betti>>

\* list.index(name) of a name that is in the list
ListIndex(names, name) ==
    CHOOSE i \in 1..Len(names) : names[i] = name /\ \A j \in 1..(i - 1) : names[j] # name

\* vertex_deletion that pops the name and leaves the coordinates.
vertex_deletion_names_only ==
    /\ Idle
    /\ vertex_to_delete # <<>>
    /\ LET vertex_name == Split(vertex_to_delete, ":")[1]
       IN  /\ vertex_name \in Range(vertex_names)
           /\ LET vertex_index == ListIndex(vertex_names, vertex_name)
                  names_left   == RemoveAt(vertex_names, vertex_index)
              IN  /\ vertex_names' = names_left
                  /\ vertex_coords' = vertex_coords
                  /\ menu_vertex' = [i \in 1..Len(names_left) |->
                                        Label(names_left[i], Join(vertex_coords[i], <<" ">>))]
    /\ vertex_to_delete' = <<>>
    /\ UNCHANGED <<names_none, vertices, radius, metric, seed, pc, complex, result,
                   entry_dimension, entry_radius, betti>>

\* Vertex_List_Frame.vertex_deletion: pops the flagged vertex off the two
\* lists and builds the menu anew (list.index raises ValueError when the
\* name cut off the label is no vertex name: nothing changes then).
vertex_deletion ==
    /\ Idle
    /\ vertex_to_delete # <<>>
    /\ LET vertex_name == Split(vertex_to_delete, ":")[1]
       IN  /\ vertex_name \in Range(vertex_names)
           /\ LET vertex_index == ListIndex(vertex_names, vertex_name)
                  names_left   == RemoveAt(vertex_names, vertex_index)
                  coords_left  == RemoveAt(vertex_coords, vertex_index)
              IN  /\ vertex_names' = names_left
                  /\ vertex_coords' = coords_left
                  /\ menu_vertex' = [i \in 1..Len(names_left) |->
                                        Label(names_left[i], Join(coords_left[i], <<" ">>))]
    /\ vertex_to_delete' = <<>>
    /\ UNCHANGED <<names_none, vertices, radius, metric, seed, pc, complex, result,
                   entry_dimension, entry_radius, betti>>

\* Betti_Frame.update_betti rewrites the items of Main_Window.betti in place
\* into the parts of the label: item i becomes the text of index i and value.
update_betti(numbers) == [i \in 1..Len(numbers) |-> [index |-> i - 1, value |-> numbers[i]]]

\* Main_Window.startup_complex_plot: the complex drawn at startup.  Its
\* numbers are counted in twentieths (0.4 is 8, 0.75 is 15, 1 is 20); the
\* distance test compares a metric with 2 * radius and holds in any unit.
StartupNames == << <<"A">>, <<"B">>, <<"C">>, <<"D">>, <<"E">>, <<"F">> >>

StartupVertices == << <<0, 0>>, <<20, 0>>, <<0, 20>>, <<40, 20>>, <<20, 40>>, <<8, 8>> >>

StartupRadius == 15

\* The instance built under the hash seed csd, read under the hash seed sd.
startup_complex_plot(csd, sd) ==
    InstanceOf(NewComplex(StartupNames, StartupVertices, StartupRadius, "Euclidean", csd),
               StartupNames, sd)

\* The text Betti_Frame.__init__ gives betti_label: the value shown for each
\* index.
PregeneratedBetti == <<1, 1, 0, 0>>

\* The parts betti_label shows: the pregenerated text until generate_plot
\* has run, the items of Main_Window.betti from then on.
betti_label ==
    IF betti = <<>> THEN update_betti(PregeneratedBetti) ELSE betti

\* Metric_Frame.set_metric, the command of the radiobuttons of menu_metric.
\* Main_Window.metric holds the label of the button; the model holds the
\* function metric_dict gives for the label, which is the same for the
\* English and the Polish label of a metric.
set_metric ==
    /\ Idle
    /\ \E m \in Metrics : metric' = m
    /\ UNCHANGED <<vertex_names, names_none, vertices, radius, seed, pc, complex, result>>
    /\ UNCHANGED guiVars

\* Title_Frame.change_language: the texts of the widgets change to the other
\* language (the model holds no text that depends on the language) and
\* Main_Window.metric becomes the Euclidean label of that language.
change_language ==
    /\ Idle
    /\ metric' = "Euclidean"
    /\ UNCHANGED <<vertex_names, names_none, vertices, radius, seed, pc, complex, result>>
    /\ UNCHANGED guiVars

\* plot_2d_complex raises KeyError: with draw_simplices it looks up, in
\* complex.vertices, the items of every simplex of get_all_simplices() that
\* has from 3 to dim + 1 items, and the simplex a vertex name gives holds the
\* characters of the name.
plot_2d_complex_raises(c, draw_simplices) ==
    /\ draw_simplices
    /\ \E simplex \in all_simplices(c) :
          /\ Len(simplex) > 2
          /\ Len(simplex) <= c.dim + 1
          /\ \E i \in 1..Len(simplex) : simplex[i] \notin DOMAIN c.vertices

\* Plot_Frame.update_canvas raises: for dimension 2 it calls plot_2d_complex
\* with draw_simplices = not draw_graph; plot_3d_complex reads the maximal
\* simplices only.
update_canvas_raises(c, dimension, draw_graph) ==
    IntOf(dimension) = 2 /\ plot_2d_complex_raises(c, ~draw_graph)

\* Plot_Generation_Frame.generate_plot: when check_input passes and the
\* coordinates and the radius convert to float, a new instance is built from
\* the converted coordinates and from Main_Window.vertex_names itself and
\* assigned; then the canvas is updated, under either state of the Draw
\* graph checkbutton; then the Betti numbers of the instance are shown.
\* When update_canvas raises, the new instance stays and the Betti numbers
\* are the old ones.
generate_plot ==
    /\ Idle
    /\ check_input(entry_dimension, vertex_coords, entry_radius)
    /\ ~ConvertRaises(vertex_coords)
    /\ ~FloatRaises(entry_radius)
    /\ ~InitRaises(FALSE, vertex_names)
    /\ vertices' = convert_coords_to_float(vertex_coords)
    /\ radius' = FloatOf(entry_radius)
    /\ \E csd \in CliqueSeeds(vertex_names, vertices', radius', metric) :
          complex' = NewComplex(vertex_names, vertices', radius', metric, csd)
    /\ pc' = "built"
    /\ \E draw_graph \in BOOLEAN :
          IF update_canvas_raises(InstanceOf(complex', vertex_names, NoSeed),
                                  entry_dimension, draw_graph)
          THEN betti' = betti
          ELSE \E sd \in HashSeeds("first",
                                   FaceSets(InstanceOf(complex', vertex_names, NoSeed),
                                            0..(complex'.dim + 1))) :
                  betti' = update_betti(get_betti(InstanceOf(complex', vertex_names, sd)))
    /\ UNCHANGED <<vertex_names, names_none, metric, seed, result,
                   vertex_coords, entry_dimension, entry_radius, vertex_to_delete, menu_vertex>>

\* Plot_Generation_Frame.save_plot: when check_input passes and the dimension
\* is 2 or 3, Main_Window.complex, whatever it is, is passed to the plotting
\* function of that dimension.
save_plot ==
    /\ Idle
    /\ check_input(entry_dimension, vertex_coords, entry_radius)
    /\ IntOf(entry_dimension) \in {2, 3}
    /\ result' = [op    |-> IF IntOf(entry_dimension) = 2
                            THEN "plot_2d_complex" ELSE "plot_3d_complex",
                  p     |-> 0,
                  value |-> complex]
    /\ UNCHANGED <<vertex_names, names_none, vertices, radius, metric, seed, pc, complex>>
    /\ UNCHANGED guiVars

\* The plotting function save_plot called returns or raises, and save_plot
\* is over.
save_plot_done ==
    /\ result # NoResult
    /\ result' = NoResult
    /\ UNCHANGED <<vertex_names, names_none, vertices, radius, metric, seed, pc, complex>>
    /\ UNCHANGED guiVars

NextGui ==
    \/ EditDimension
    \/ EditRadius
    \/ vertex_confirmation
    \/ waitlist
    \/ vertex_deletion
    \/ set_metric
    \/ change_language
    \/ generate_plot
    \/ save_plot
    \/ save_plot_done

SpecGui == InitGui /\ [][NextGui]_vars

\* ================================================================== claims
\* The connected components of a graph: the sets of mutually reachable nodes.
RECURSIVE Grow(_, _)
Grow(graph, S) ==
    LET T == S \cup {v \in graph.nodes : \E u \in S : {u, v} \in graph.edges}
    IN  IF T = S THEN S ELSE Grow(graph, T)

Components(graph) == {Grow(graph, {v}) : v \in graph.nodes}

IsZero(m) == \A i \in 1..m.rows : \A j \in 1..m.cols : m.a[i][j] = 0

\* Names of one character only: list(name) is then [name].
SingleCharNames == \A i \in 1..Len(vertex_names) : Len(vertex_names[i]) = 1

\* C1: get_p_betti(0) equals the number of connected components of the
\* proximity graph, for any input.
C1_Betti0IsComponents ==
    (pc = "built" /\ result.op = "get_p_betti" /\ result.p = 0)
        => result.value = Cardinality(Components(complex.graph))

\* C2: for a complex of a single isolated point, get_betti() returns [1].
C2_SinglePointBetti ==
    (pc = "built" /\ result.op = "get_betti" /\ Len(vertex_names) = 1)
        => result.value = <<1>>

\* C3: for every p with 0 <= p <= dim, the boundary matrices of p and p + 1
\* have shapes fit for multiplication and their product over GF(2) is zero.
C3_BoundarySquaredZero ==
    (pc = "built" /\ result.op = "get_p_boundary_matrix"
        /\ result.p >= 0 /\ result.p <= complex.dim)
        => \A sd \in FaceSeeds({result.p + 1}) :
              LET m1 == get_p_boundary_matrix(Instance(seed @@ sd), result.p + 1)
              IN  /\ result.value.cols = m1.rows
                  /\ IsZero(MatMul(result.value, m1))

\* C4: get_p_betti(p) always equals columns(M_p) - rank(M_p) - rank(M_p+1),
\* also when both matrices are the 1x1 zero matrix.
C4_ShortCircuitIsFormula ==
    (pc = "built" /\ result.op = "get_p_betti")
        => result.value = RankNullity(get_p_boundary_matrix(Self, result.p),
                                      get_p_boundary_matrix(Self, result.p + 1))

\* C5: no input of named points (none, one or more) makes the construction
\* raise.
C5_DegenerateNeverRaises ==
    (~names_none /\ Len(vertices) = Len(vertex_names)) => pc # "raised"

\* C6: the same input yields the same simplices and the same get_p_simplices(p)
\* lists, faces in the same order, whatever order sets and the clique search
\* iterate in.
C6_Deterministic ==
    (pc = "built" /\ result.op = "get_p_simplices")
        => /\ \A csd \in CliqueSeeds(vertex_names, vertices, radius, metric) :
                 NewComplex(vertex_names, vertices, radius, metric, csd).simplices
                    = complex.simplices
           /\ \A sd \in FaceSeeds({result.p}) :
                 get_p_simplices(Instance(sd), result.p) = result.value

\* The position of a name in the input, and the coordinates given with it.
IndexOf(name) == CHOOSE i \in 1..Len(vertex_names) : vertex_names[i] = name

Coords(name) == vertices[IndexOf(name)]

Ascends(face) == \A k \in 1..(Len(face) - 1) : StrLt(face[k], face[k + 1])

\* C8: the graph has one node per point name and, for every pair of distinct
\* names, an edge iff metric(p1, p2) <= 2 * radius; no self-loops; with
\* radius = 0 every edge joins coincident points.
C8_GraphIsProximity ==
    (pc = "built" /\ result = NoResult)
        => LET g == complex.graph
               n == Len(vertex_names)
           IN  /\ g.nodes = Range(vertex_names)
               /\ Cardinality(g.nodes) = n
               /\ \A e \in g.edges : Cardinality(e) = 2 /\ e \subseteq g.nodes
               /\ \A i \in 1..n : \A j \in 1..n :
                     i # j =>
                        (({vertex_names[i], vertex_names[j]} \in g.edges)
                            <=> Within(metric, vertices[i], vertices[j], radius))
               /\ radius = 0 =>
                     \A i \in 1..n : \A j \in 1..n :
                        {vertex_names[i], vertex_names[j]} \in g.edges
                            => vertices[i] = vertices[j]

\* A graph with an edge between two points at distance exactly 2 * radius
\* and a pair of points without an edge.
C8_Witness ==
    /\ pc = "built"
    /\ result = NoResult
    /\ radius = 1
    /\ \E i \in 1..Len(vertex_names) : \E j \in 1..Len(vertex_names) :
          /\ manhattan_metric(vertices[i], vertices[j]) = 2 * radius
          /\ metric = "Manhattan"
          /\ {vertex_names[i], vertex_names[j]} \in complex.graph.edges
    /\ \E i \in 1..Len(vertex_names) : \E j \in 1..Len(vertex_names) :
          i # j /\ {vertex_names[i], vertex_names[j]} \notin complex.graph.edges

\* C9: simplices is exactly the maximal cliques of the graph: every clique is
\* inside some element, no element is inside another, and each element is a
\* clique written as a strictly ascending list of names.
C9_SimplicesAreMaximalCliques ==
    (pc = "built" /\ result = NoResult)
        => LET g == complex.graph
               S == complex.simplices
           IN  /\ \A Q \in SUBSET g.nodes :
                     (Q # {} /\ IsClique(g, Q))
                        => \E i \in 1..Len(S) : Q \subseteq Range(S[i])
               /\ \A i \in 1..Len(S) : \A j \in 1..Len(S) :
                     i # j => ~(Range(S[i]) \subseteq Range(S[j]))
               /\ \A i \in 1..Len(S) :
                     /\ S[i] # <<>>
                     /\ Range(S[i]) \subseteq g.nodes
                     /\ IsClique(g, Range(S[i]))
                     /\ Ascends(S[i])

\* Two overlapping maximal simplices of two or more points, from a name list
\* that is not in ascending order.
C9_Witness ==
    /\ pc = "built"
    /\ result = NoResult
    /\ ~Ascends(vertex_names)
    /\ \E i \in 1..Len(complex.simplices) : \E j \in 1..Len(complex.simplices) :
          /\ i # j
          /\ Len(complex.simplices[i]) >= 2
          /\ Len(complex.simplices[j]) >= 2
          /\ Range(complex.simplices[i]) \cap Range(complex.simplices[j]) # {}

\* C10: for 0 < p <= dim, get_p_simplices(p) holds each (p+1)-subset of a
\* maximal simplex exactly once, as an ascending list, and these are exactly
\* the sets of p+1 points that are pairwise within 2 * radius.
C10_PFacesOnceEach ==
    (pc = "built" /\ result.op = "get_p_simplices"
        /\ result.p > 0 /\ result.p <= complex.dim)
        => LET F == result.value
               S == complex.simplices
           IN  /\ \A i \in 1..Len(F) : \A j \in 1..Len(F) : i # j => F[i] # F[j]
               /\ \A i \in 1..Len(F) :
                     /\ Len(F[i]) = result.p + 1
                     /\ Ascends(F[i])
               /\ {Range(F[i]) : i \in 1..Len(F)}
                    = UNION {{Q \in SUBSET Range(S[k]) : Cardinality(Q) = result.p + 1} :
                                k \in 1..Len(S)}
               /\ {Range(F[i]) : i \in 1..Len(F)}
                    = {Q \in SUBSET Range(vertex_names) :
                          /\ Cardinality(Q) = result.p + 1
                          /\ \A u \in Q : \A v \in Q :
                                u # v => Within(metric, Coords(u), Coords(v), radius)}

\* A returned face that lies in two maximal simplices.
C10_Witness ==
    /\ pc = "built"
    /\ result.op = "get_p_simplices"
    /\ result.p > 0
    /\ result.p <= complex.dim
    /\ \E f \in 1..Len(result.value) :
          \E i \in 1..Len(complex.simplices) : \E j \in 1..Len(complex.simplices) :
             /\ i # j
             /\ Range(result.value[f]) \subseteq Range(complex.simplices[i])
             /\ Range(result.value[f]) \subseteq Range(complex.simplices[j])

\* The lists get_all_simplices() of the instance can return.
AllSimplicesLists ==
    {get_all_simplices(Instance(sd)) :
        sd \in HashSeeds("size_first", {all_simplices(Instance(NoSeed))})}

\* C7: an instance is immutable after construction and shares nothing: no
\* step that leaves the instance in place (vertex_confirmation,
\* vertex_deletion, edits of the entries) changes its vertex names or what
\* get_p_simplices(0) and get_all_simplices() return.
C7_InstanceImmutable ==
    [][(pc = "built" /\ pc' = "built" /\ complex' = complex)
          => /\ Self.vertex_names' = Self.vertex_names
             /\ get_p_simplices(Self, 0)' = get_p_simplices(Self, 0)
             /\ AllSimplicesLists' = AllSimplicesLists]_vars

\* C11: get_p_simplices(0) returns, for every point name (a non-empty string
\* of any length), exactly one singleton face [name] and nothing else: the
\* set of the 0-faces is the set of the points.
C11_ZeroFacesAreSingletons ==
    (pc = "built" /\ result.op = "get_p_simplices" /\ result.p = 0)
        => /\ \A n \in 1..Len(vertex_names) :
                 Cardinality({i \in 1..Len(result.value) :
                                 result.value[i] = <<vertex_names[n]>>}) = 1
           /\ Range(result.value) = {<<vertex_names[n]>> : n \in 1..Len(vertex_names)}

\* C12: get_p_simplices(p) returns the sentinel exactly when p < 0 or
\* p > dim; for 0 <= p <= dim it returns a non-empty list of non-empty faces.
C12_SentinelOutsideRange ==
    (pc = "built" /\ result.op = "get_p_simplices")
        => LET outside == result.p < 0 \/ result.p > complex.dim
           IN  /\ (result.value = Sentinel) <=> outside
               /\ ~outside =>
                     /\ result.value # <<>>
                     /\ \A i \in 1..Len(result.value) : result.value[i] # <<>>

\* The sentinel answered for the dimension just above that of a complex that
\* has edges.
C12_Witness ==
    /\ pc = "built"
    /\ result.op = "get_p_simplices"
    /\ complex.dim >= 1
    /\ result.p = complex.dim + 1
    /\ result.value = Sentinel

\* C13: in the degenerate cases get_p_boundary_matrix(p) is all zero and of
\* the stated shape: 1x1 when both the p-faces and the (p-1)-faces are the
\* sentinel, |(p-1)-faces| x 1 when only the p-faces are, 1 x |p-faces| when
\* only the (p-1)-faces are.
C13_DegenerateMatrices ==
    (pc = "built" /\ result.op = "get_p_boundary_matrix")
        => LET cols == get_p_simplices(Self, result.p)
               rows == get_p_simplices(Self, result.p - 1)
               m    == result.value
           IN  /\ (cols = Sentinel /\ rows = Sentinel) =>
                     m.rows = 1 /\ m.cols = 1 /\ Len(m.a) = 1 /\ IsZero(m)
               /\ (cols = Sentinel /\ rows # Sentinel) =>
                     /\ m.rows = Len(rows) /\ m.cols = 1 /\ Len(m.a) = Len(rows)
                     /\ \A i \in 1..Len(m.a) : Len(m.a[i]) = 1
                     /\ IsZero(m)
               /\ (cols # Sentinel /\ rows = Sentinel) =>
                     /\ m.rows = 1 /\ m.cols = Len(cols) /\ Len(m.a) = 1
                     /\ Len(m.a[1]) = Len(cols)
                     /\ IsZero(m)

\* The column of zeros above the top dimension of a complex with several
\* top faces.
C13_Witness ==
    /\ pc = "built"
    /\ result.op = "get_p_boundary_matrix"
    /\ result.p = complex.dim + 1
    /\ result.value.rows >= 2
    /\ result.value.cols = 1

\* C14: for 1 <= p <= dim, get_p_boundary_matrix(p) has one row per
\* (p-1)-face and one column per p-face, in the order of get_p_simplices, and
\* the entry of a row and a column is 1 iff the row's face has exactly one
\* point fewer than the column's face and lies inside it, 0 otherwise.
C14_BoundaryEntries ==
    (pc = "built" /\ result.op = "get_p_boundary_matrix"
        /\ result.p >= 1 /\ result.p <= complex.dim)
        => LET cols == get_p_simplices(Self, result.p)
               rows == get_p_simplices(Self, result.p - 1)
               m    == result.value
           IN  /\ m.rows = Len(rows) /\ Len(m.a) = Len(rows)
               /\ m.cols = Len(cols)
               /\ \A i \in 1..Len(rows) :
                     /\ Len(m.a[i]) = Len(cols)
                     /\ \A j \in 1..Len(cols) :
                           m.a[i][j] = IF /\ Len(rows[i]) + 1 = Len(cols[j])
                                          /\ Range(rows[i]) \subseteq Range(cols[j])
                                       THEN 1 ELSE 0

\* The largest clique of a graph has this many nodes.
CliqueNumber(graph) ==
    CHOOSE k \in 0..Cardinality(graph.nodes) :
        /\ \E Q \in SUBSET graph.nodes : Cardinality(Q) = k /\ IsClique(graph, Q)
        /\ \A Q \in SUBSET graph.nodes : IsClique(graph, Q) => Cardinality(Q) <= k

\* C15: dim is one less than the size of the largest maximal simplex, and
\* get_betti() returns dim + 1 values, the p-th being get_p_betti(p) for
\* p = 0..dim in increasing order.
C15_BettiSequence ==
    (pc = "built" /\ result.op = "get_betti")
        => /\ complex.dim = CliqueNumber(complex.graph) - 1
           /\ \A i \in 1..Len(complex.simplices) :
                 Len(complex.simplices[i]) <= complex.dim + 1
           /\ \E i \in 1..Len(complex.simplices) :
                 Len(complex.simplices[i]) = complex.dim + 1
           /\ Len(result.value) = complex.dim + 1
           /\ \A p \in 0..complex.dim : result.value[p + 1] = get_p_betti(Self, p)

\* The Betti numbers of a complex of dimension 2 or more whose numbers are
\* not all the same.
C15_Witness ==
    /\ pc = "built"
    /\ result.op = "get_betti"
    /\ complex.dim >= 2
    /\ result.value[1] # result.value[complex.dim + 1]

\* C16: every value of get_betti() is a non-negative integer, for every
\* complex.
C16_BettiNonNegative ==
    (pc = "built" /\ result.op = "get_betti")
        => \A i \in 1..Len(result.value) : result.value[i] \in Nat

\* The neighbours of a node.
Neighbours(graph, v) == {u \in graph.nodes : {u, v} \in graph.edges}

\* A chordless cycle on 4 or more points: connected, every node on exactly
\* two edges.
IsChordlessCycle(graph) ==
    /\ Cardinality(graph.nodes) >= 4
    /\ Cardinality(Components(graph)) = 1
    /\ \A v \in graph.nodes : Cardinality(Neighbours(graph, v)) = 2

IsComplete(graph) ==
    \A u \in graph.nodes : \A v \in graph.nodes : u # v => {u, v} \in graph.edges

\* C17: when the proximity graph is a chordless cycle on n >= 4 points, the
\* maximal simplices are exactly the n edges of the cycle and get_betti()
\* returns [1, 1].
C17_CycleBetti ==
    (pc = "built" /\ result.op = "get_betti" /\ IsChordlessCycle(complex.graph))
        => /\ {Range(complex.simplices[i]) : i \in 1..Len(complex.simplices)}
                 = complex.graph.edges
           /\ Len(complex.simplices) = Cardinality(complex.graph.nodes)
           /\ result.value = <<1, 1>>

\* C18: when all n >= 2 points are pairwise within 2 * radius, the only
\* maximal simplex is the full point set and get_betti() returns
\* [1, 0, ..., 0] of length n.
C18_CompleteBetti ==
    (pc = "built" /\ result.op = "get_betti"
        /\ Len(vertex_names) >= 2 /\ IsComplete(complex.graph))
        => /\ complex.simplices = <<SortedNames(Range(vertex_names))>>
           /\ result.value = [i \in 1..Len(vertex_names) |-> IF i = 1 THEN 1 ELSE 0]

\* Two disjoint pairs: four points, two edges without a common point.
IsTwoPairs(graph) ==
    /\ Cardinality(graph.nodes) = 4
    /\ Cardinality(graph.edges) = 2
    /\ \A v \in graph.nodes : Cardinality(Neighbours(graph, v)) = 1

\* C19: for two disjoint pairs of points, get_p_betti(0) = 2 and
\* get_p_betti(p) = 0 for every p >= 1.
C19_TwoPairsBetti ==
    (pc = "built" /\ result.op = "get_p_betti" /\ IsTwoPairs(complex.graph)
        /\ result.p >= 0)
        => result.value = IF result.p = 0 THEN 2 ELSE 0

\* C20: constructed with vertex_names = None, the construction succeeds (and
\* the names are then the indexes of the vertices).
C20_DefaultNames ==
    (names_none /\ pc # "new") => pc = "built"

\* C21: malformed input never reaches the core: whatever the GUI operations
\* before, generate_plot constructs a VietorisRipsComplex only when there is
\* at least one vertex, the vertex names are pairwise distinct and non-empty,
\* and every stored coordinate vector has as many coordinates as the
\* dimension entry says.
C21_OnlyWellFormedReachesCore ==
    [][generate_plot
          => /\ Len(vertex_names) >= 1
             /\ Len(vertex_coords) = Len(vertex_names)
             /\ \A i \in 1..Len(vertex_names) :
                   /\ vertex_names[i] # <<>>
                   /\ \A j \in 1..Len(vertex_names) :
                         i # j => vertex_names[i] # vertex_names[j]
             /\ isdecimal(entry_dimension)
             /\ \A i \in 1..Len(vertex_coords) :
                   Len(vertex_coords[i]) = IntOf(entry_dimension)
             /\ \A i \in 1..Len(vertices') :
                   Len(vertices'[i]) = IntOf(entry_dimension)]_vars

\* A complex built by generate_plot from two vertices.
C21_Witness ==
    /\ pc = "built"
    /\ betti # <<>>
    /\ Len(vertices) = 2
    /\ Cardinality(complex.graph.nodes) = 2

\* The hash seeds as far as the clique search of the startup complex shows
\* them, and a hash seed for get_betti() of the instance built under csd.
StartupCliqueSeeds == CliqueSeeds(StartupNames, StartupVertices, StartupRadius, "Euclidean")

StartupSeed(c) == CHOOSE sd \in HashSeeds("first", FaceSets(c, 0..(c.dim + 1))) : TRUE

\* The instances startup_complex_plot can build.
StartupComplexes == {startup_complex_plot(csd, NoSeed) : csd \in StartupCliqueSeeds}

\* C22: the pregenerated Betti label shown at startup (beta_0 = 1,
\* beta_1 = 1, beta_2 = 0, beta_3 = 0) equals get_betti() of the startup
\* complex.
C22_PregeneratedLabel ==
    betti = <<>>
        => \A c \in StartupComplexes :
              betti_label = update_betti(get_betti([c EXCEPT !.seed = StartupSeed(c)]))

\* The startup label still on show while the user has entered vertices.
C22_Witness ==
    /\ betti = <<>>
    /\ complex = NoComplex
    /\ Len(vertex_names) = 2
    /\ \E c \in StartupComplexes : Len(betti_label) = c.dim + 1

\* C23: the simplices list is ordered by size ascending and, among simplices
\* of equal size, by their first (smallest) point name.
C23_SimplicesOrdered ==
    (pc = "built" /\ result = NoResult)
        => LET S == complex.simplices
           IN  /\ \A i \in 1..Len(S) : \A k \in 2..Len(S[i]) : StrLt(S[i][1], S[i][k])
               /\ \A i \in 1..Len(S) : \A j \in 1..Len(S) :
                     i < j => \/ Len(S[i]) < Len(S[j])
                              \/ /\ Len(S[i]) = Len(S[j])
                                 /\ ~StrLt(S[j][1], S[i][1])

\* Simplices of two sizes, two of them of the same size with different
\* first names.
C23_Witness ==
    /\ pc = "built"
    /\ result = NoResult
    /\ \E i \in 1..Len(complex.simplices) : \E j \in 1..Len(complex.simplices) :
          Len(complex.simplices[i]) < Len(complex.simplices[j])
    /\ \E i \in 1..Len(complex.simplices) : \E j \in 1..Len(complex.simplices) :
          /\ Len(complex.simplices[i]) = Len(complex.simplices[j])
          /\ StrLt(complex.simplices[i][1], complex.simplices[j][1])

\* The faces of a complex as the claim counts them: one singleton per point
\* name and every subset of two or more points of a maximal simplex, each as
\* an ascending list.
AllFaces ==
    {<<vertex_names[i]>> : i \in 1..Len(vertex_names)}
        \cup UNION {{SortedNames(Q) : Q \in {R \in SUBSET Range(complex.simplices[k]) :
                                                 Cardinality(R) >= 2}} :
                       k \in 1..Len(complex.simplices)}

\* C24: get_all_simplices() returns exactly the simplices of the complex: as
\* a set the union of get_p_simplices(p) for p = 0..dim, which is one
\* singleton per point name plus every subset of size >= 2 of a maximal
\* simplex, with no duplicates, for names of any length.
C24_AllSimplices ==
    (pc = "built" /\ result.op = "get_all_simplices")
        => /\ \A sd \in FaceSeeds(0..complex.dim) :
                 Range(result.value)
                    = UNION {Range(get_p_simplices(Instance(sd), p)) : p \in 0..complex.dim}
           /\ Range(result.value) = AllFaces
           /\ \A i \in 1..Len(result.value) : \A j \in 1..Len(result.value) :
                 i # j => result.value[i] # result.value[j]

\* C25: for every complex and every p < 0 or p > dim, get_p_betti(p)
\* returns 0.
C25_BettiOutsideRange ==
    (pc = "built" /\ result.op = "get_p_betti"
        /\ (result.p < 0 \/ result.p > complex.dim))
        => result.value = 0

\* The number of ones of column j of a matrix.
ColumnOnes(m, j) == Cardinality({i \in 1..m.rows : m.a[i][j] = 1})

\* C26: for every p with 1 <= p <= dim, every column of
\* get_p_boundary_matrix(p) contains exactly p + 1 ones.
C26_ColumnsHaveAllFacets ==
    (pc = "built" /\ result.op = "get_p_boundary_matrix"
        /\ result.p >= 1 /\ result.p <= complex.dim)
        => \A j \in 1..result.value.cols : ColumnOnes(result.value, j) = result.p + 1

\* The alternating sum of a list of numbers: x_0 - x_1 + x_2 - ...
RECURSIVE AlternatingSum(_)
AlternatingSum(xs) ==
    IF xs = <<>> THEN 0 ELSE xs[1] - AlternatingSum(Tail(xs))

\* C27: Euler-Poincare: the alternating sum of get_betti() equals the
\* alternating sum of the face counts |get_p_simplices(p)|, p = 0..dim.
C27_EulerPoincare ==
    (pc = "built" /\ result.op = "get_betti")
        => AlternatingSum(result.value)
              = AlternatingSum([i \in 1..(complex.dim + 1) |->
                                   Len(get_p_simplices(Self, i - 1))])

\* The menu entry that is flagged for deletion.
FlaggedIndex == CHOOSE i \in 1..Len(menu_vertex) : menu_vertex[i] = vertex_to_delete

\* C28: vertex_deletion with a flagged menu entry removes exactly the vertex
\* that entry was created for, its name and the coordinates at the same
\* index, leaves the other vertices in their order and clears the flag, for
\* every name validate_name accepts.
C28_DeletionRemovesFlagged ==
    [][vertex_deletion
          => /\ vertex_names' = RemoveAt(vertex_names, FlaggedIndex)
             /\ vertex_coords' = RemoveAt(vertex_coords, FlaggedIndex)
             /\ vertex_to_delete' = <<>>]_vars

\* C29: after any sequence of vertex_confirmation and vertex_deletion,
\* vertex_names and vertex_coords have the same length and position i of
\* both holds the name and the coordinates confirmed together: a step
\* appends one item to both, removes the same position of both or changes
\* neither, and the menu entry of position i is made of both.
C29_ListsStayPaired ==
    [][/\ Len(vertex_names') = Len(vertex_coords')
       /\ Len(menu_vertex') = Len(vertex_names')
       /\ \A i \in 1..Len(vertex_names') :
             menu_vertex'[i] = Label(vertex_names'[i], Join(vertex_coords'[i], <<" ">>))
       /\ \/ vertex_names' = vertex_names /\ vertex_coords' = vertex_coords
          \/ /\ Len(vertex_names') = Len(vertex_names) + 1
             /\ SubSeq(vertex_names', 1, Len(vertex_names)) = vertex_names
             /\ SubSeq(vertex_coords', 1, Len(vertex_coords)) = vertex_coords
          \/ \E i \in 1..Len(vertex_names) :
                /\ vertex_names' = RemoveAt(vertex_names, i)
                /\ vertex_coords' = RemoveAt(vertex_coords, i)]_vars

\* A vertex of a generated complex has been deleted: one vertex is left of
\* the two the complex was built from.
C29_Witness ==
    /\ pc = "built"
    /\ Cardinality(complex.graph.nodes) = 2
    /\ Len(vertex_names) = 1
    /\ Len(vertex_coords) = 1

\* C30: save_plot never passes a missing complex to a plotting function:
\* whenever it passes check_input with dimension 2 or 3, Main_Window.complex
\* is a complex generate_plot constructed.
C30_SavePlotHasComplex ==
    result.op \in {"plot_2d_complex", "plot_3d_complex"} => result.value # NoComplex

====
